---- MODULE Spec2Model ----
(***************************************************************************)
(* Model of the backup-run lifecycle (handler.Conplicity), the metrics     *)
(* push (PushToPrometheus) and the remote inventory client                 *)
(* (client.Client).  Strings are TLC strings where only concatenation is   *)
(* needed, and sequences of one-character strings where the code looks     *)
(* inside them (URL parsing).  JSON bodies and error texts are sequences   *)
(* of lexemes.  The specifications share the variables: Spec (runs),       *)
(* SpecEnv (environment of every configuration), SpecPush (metrics push),  *)
(* SpecClient (NewClient, GetVolumes), SpecSetup (pullImage) and SpecAll   *)
(* (runs, pushes and client operations).                                   *)
(***************************************************************************)
EXTENDS Integers, Sequences, FiniteSets, TLC

\* ------------------------------------------------------------------ bounds
MaxRuns == 2
MaxChunks == 1
MaxMetrics == 2
MaxPushes == 2
MaxPings == 2

\* ------------------------------------------------------------ input sets
CredValues == {"", "k"}
ExitCodes == {0, 1}
MetricLines == {"a 1", "b 2"}
Hostname == <<"h", "1">>
\* gateway URLs: unset, well formed, and ":" first (url.Parse fails)
GatewayURLs == { <<>>,
                 <<"h", ":", "/", "/", "g">>,
                 <<":", "/", "/", "g">> }

NilCont == -1     \* the zero types.ContainerJSON: its *ContainerJSONBase is nil
NilReq == [method |-> "nil", url |-> <<>>, contentType |-> "", body |-> ""]

VARIABLES
    Config,      \* c.Config: credentials and push gateway URL
    Metrics,     \* c.Metrics
    proc,        \* the process: "up", "exited" (os.Exit), "panicked"
    pc,          \* position inside LaunchDuplicity, "idle" between calls
    runNo,       \* number of LaunchDuplicity invocations made so far
    containerID, \* container.ID of the current invocation, 0 when none
    deferred,    \* the deferred calls of the current invocation, last first
    body,        \* the log stream: "nil", "open", "closed"
    content,     \* what ioutil.ReadAll has read so far
    nread,       \* number of chunks read
    err,         \* the named result err
    state,       \* the named result state
    stdout,      \* the named result stdout
    calls,       \* every call made on the container runtime and every
                 \* completed read of a log stream, in order
    logged,      \* what util.CheckErr logged
    results,     \* what LaunchDuplicity returned to its caller, per run
    httpCalls,   \* requests handed to http.Client.Do by PushToPrometheus
    pushResults, \* per PushToPrometheus call that returned: batch and error
    pushNo,      \* number of PushToPrometheus invocations made so far
    clientReqs,  \* requests handed to http.Client.Do by client.newRequest
    pingResults, \* what NewClient returned, per call
    pingNo,      \* number of NewClient invocations made so far
    client,      \* the Client the last NewClient returned, NoClient before
    volResults,  \* what GetVolumes returned, per call
    volNo,       \* number of GetVolumes invocations made so far
    program,     \* what the behaviour exercises: "setup" (Setup), "backup"
                 \* (runs), "report" (the push ending a cycle) or "client"
    imageCalls,  \* the image calls pullImage made on the runtime, in order
    pullResult   \* the error pullImage returned, "none" before it ran

runVars == <<pc, runNo, containerID, deferred, body, content, nread, err,
             state, stdout, calls, logged, results>>
pushVars == <<httpCalls, pushResults, pushNo>>
clientVars == <<clientReqs, pingResults, pingNo, client, volResults, volNo>>
setupVars == <<program, imageCalls, pullResult>>
vars == <<setupVars, Config, Metrics, proc, runVars, pushVars, clientVars>>

\* ------------------------------------------------------------ pullImage
\* what ImageInspectWithRaw and ImagePull can return
InspectErrs == {"nil", "notfound", "daemon"}
PullErrs == {"nil", "pull"}

\* NeedPull pulling whatever the inspect returned
NeedPullAlways(inspectErr) == TRUE

\* handler.go:137: the image is pulled when its inspect returned an error
NeedPull(inspectErr) == inspectErr # "nil"

\* handler.go:136-150
pullImage ==
    /\ proc = "up" /\ pc = "idle" /\ pullResult = "none"
    /\ \E inspectErr \in InspectErrs, pullErr \in PullErrs :
         \* the pull outcome is fixed when no pull is made
         /\ inspectErr = "nil" => pullErr = "nil"
         /\ IF NeedPull(inspectErr)
            THEN /\ imageCalls' = << [op |-> "inspect", err |-> inspectErr],
                                     [op |-> "pull", err |-> pullErr] >>
                 /\ logged' = Append(logged, [level |-> "info",
                                              msg |-> "Pulling image"])
                 /\ pullResult' = pullErr
            ELSE /\ imageCalls' = << [op |-> "inspect", err |-> inspectErr] >>
                 /\ logged' = Append(logged,
                        [level |-> "debug",
                         msg |-> "Image already pulled, not pulling"])
                 /\ pullResult' = inspectErr
    /\ UNCHANGED <<program, Config, Metrics, proc, pc, runNo, containerID,
                   deferred, body, content, nread, err, state, stdout, calls,
                   results, pushVars, clientVars>>

\* ------------------------------------------------------ LaunchDuplicity
\* Env leaving out the credentials that are not set
EnvOmitUnset(cfg) ==
    LET all == << [k |-> "AWS_ACCESS_KEY_ID=", v |-> cfg.AccessKeyID],
                  [k |-> "AWS_SECRET_ACCESS_KEY=", v |-> cfg.SecretAccessKey],
                  [k |-> "SWIFT_USERNAME=", v |-> cfg.Username],
                  [k |-> "SWIFT_PASSWORD=", v |-> cfg.Password],
                  [k |-> "SWIFT_AUTHURL=", v |-> cfg.AuthURL],
                  [k |-> "SWIFT_TENANTNAME=", v |-> cfg.TenantName],
                  [k |-> "SWIFT_REGIONNAME=", v |-> cfg.RegionName],
                  [k |-> "SWIFT_AUTHVERSION=", v |-> "2"] >>
        IsSet(e) == e.v # ""
        set == SelectSeq(all, IsSet)
    IN  [i \in 1..Len(set) |-> set[i].k \o set[i].v]

\* handler.go:154-163
Env(cfg) ==
    << "AWS_ACCESS_KEY_ID=" \o cfg.AccessKeyID,
       "AWS_SECRET_ACCESS_KEY=" \o cfg.SecretAccessKey,
       "SWIFT_USERNAME=" \o cfg.Username,
       "SWIFT_PASSWORD=" \o cfg.Password,
       "SWIFT_AUTHURL=" \o cfg.AuthURL,
       "SWIFT_TENANTNAME=" \o cfg.TenantName,
       "SWIFT_REGIONNAME=" \o cfg.RegionName,
       "SWIFT_AUTHVERSION=2" >>

\* one call on the runtime: env is the Env of a create call, ret the exit
\* code an inspect call reported (NilCont for the zero value) or the number
\* of chunks a read returned
Call(op, id, ok, env, ret) ==
    [op |-> op, id |-> id, ok |-> ok, env |-> env, ret |-> ret]

\* util.CheckErr(err, msg, level): nothing when err is nil; otherwise the
\* message is logged at the level, and level "fatal" ends the process at
\* once (deferred calls are not run).
CheckErrLog(e, msg, level) ==
    IF e = "nil" THEN logged ELSE Append(logged, [level |-> level, msg |-> msg])

CheckErrFatal(e, level) == e # "nil" /\ level = "fatal"

Configs ==
    [ AccessKeyID : CredValues, SecretAccessKey : CredValues,
      Username : CredValues, Password : CredValues, AuthURL : CredValues,
      TenantName : CredValues, RegionName : CredValues,
      PushgatewayURL : GatewayURLs ]

\* handler.go:153-189: compose env, ContainerCreate, CheckErr fatal, defer
LaunchCreate ==
    /\ proc = "up" /\ pc = "idle" /\ runNo < MaxRuns
    /\ \E ok \in BOOLEAN :
         LET id == IF ok THEN runNo + 1 ELSE 0
             e == IF ok THEN "nil" ELSE "create"
         IN  /\ runNo' = runNo + 1
             /\ calls' = Append(calls, Call("create", id, ok, Env(Config), 0))
             /\ logged' = CheckErrLog(e, "Failed to create container", "fatal")
             /\ containerID' = id
             /\ body' = "nil" /\ content' = "" /\ nread' = 0
             /\ state' = 0 /\ stdout' = ""
             /\ err' = e
             /\ IF CheckErrFatal(e, "fatal")
                THEN proc' = "exited" /\ pc' = "aborted" /\ deferred' = <<>>
                ELSE /\ proc' = proc
                     /\ deferred' = <<[f |-> "removeContainer", id |-> id]>>
                     /\ pc' = "start"
    /\ UNCHANGED <<setupVars, Config, Metrics, results, pushVars, clientVars>>

\* handler.go:191-193: ContainerStart, CheckErr fatal
LaunchStart ==
    /\ proc = "up" /\ pc = "start"
    /\ \E ok \in BOOLEAN :
         LET e == IF ok THEN "nil" ELSE "start"
         IN  /\ calls' = Append(calls, Call("start", containerID, ok, <<>>, 0))
             /\ logged' = CheckErrLog(e, "Failed to start container", "fatal")
             /\ err' = e
             /\ IF CheckErrFatal(e, "fatal")
                THEN proc' = "exited" /\ pc' = "aborted"
                ELSE proc' = proc /\ pc' = "logs"
    /\ UNCHANGED <<setupVars, Config, Metrics, runNo, containerID, deferred, body,
                   content, nread, state, stdout, results, pushVars,
                   clientVars>>

\* handler.go:195-203: ContainerLogs, CheckErr error, defer body.Close().
\* On failure body is the nil io.ReadCloser and evaluating body.Close for
\* the defer statement is a nil dereference: the function panics.
LaunchLogs ==
    /\ proc = "up" /\ pc = "logs"
    /\ \E ok \in BOOLEAN :
         LET e == IF ok THEN "nil" ELSE "logs"
         IN  /\ calls' = Append(calls, Call("logs", containerID, ok, <<>>, 0))
             /\ logged' = CheckErrLog(e, "Failed to retrieve logs", "error")
             /\ err' = e
             /\ IF ok
                THEN /\ body' = "open"
                     /\ deferred' = <<[f |-> "Close", id |-> containerID]>> \o deferred
                     /\ pc' = "read"
                ELSE /\ body' = "nil"
                     /\ deferred' = deferred
                     /\ pc' = "panic"
    /\ UNCHANGED <<setupVars, Config, Metrics, proc, runNo, containerID, content, nread,
                   state, stdout, results, pushVars, clientVars>>

\* handler.go:204: ioutil.ReadAll reads one more chunk of the followed stream
ReadChunk ==
    /\ proc = "up" /\ pc = "read" /\ body = "open" /\ nread < MaxChunks
    /\ content' = content \o "o"
    /\ nread' = nread + 1
    /\ UNCHANGED <<setupVars, Config, Metrics, proc, pc, runNo, containerID, deferred,
                   body, err, state, stdout, calls, logged, results,
                   pushVars, clientVars>>

\* handler.go:204-207: the runtime closed the stream (ok) or the read failed;
\* ReadAll returns what it read, CheckErr error, stdout = string(content)
ReadEnd ==
    /\ proc = "up" /\ pc = "read" /\ body = "open"
    /\ \E ok \in BOOLEAN :
         LET e == IF ok THEN "nil" ELSE "read"
         IN  /\ logged' = CheckErrLog(e, "Failed to read logs from response", "error")
             /\ err' = e
             /\ calls' = Append(calls, Call("read", containerID, ok, <<>>, nread))
             /\ stdout' = content
             /\ pc' = "inspect"
    /\ UNCHANGED <<setupVars, Config, Metrics, proc, runNo, containerID, deferred, body,
                   content, nread, state, results, pushVars, clientVars>>

\* AtInspect letting ContainerInspect start while ReadAll is still reading
AtInspectEarly(p) == p \in {"read", "inspect"}

\* handler.go:204-209: ContainerInspect is reached once ReadAll has returned
AtInspect(p) == p = "inspect"

\* handler.go:209-216: ContainerInspect, CheckErr error,
\* state = cont.State.ExitCode (a nil dereference when cont is the zero value)
LaunchInspect ==
    /\ proc = "up" /\ AtInspect(pc)
    /\ \E ok \in BOOLEAN :
       \E cont \in IF ok THEN ExitCodes ELSE {NilCont} \cup ExitCodes :
         LET e == IF ok THEN "nil" ELSE "inspect"
         IN  /\ calls' = Append(calls, Call("inspect", containerID, ok, <<>>, cont))
             /\ logged' = CheckErrLog(e, "Failed to inspect container", "error")
             /\ err' = e
             /\ IF cont = NilCont
                THEN state' = state /\ pc' = "panic"
                ELSE state' = cont /\ pc' = "return"
    /\ UNCHANGED <<setupVars, Config, Metrics, proc, runNo, containerID, deferred, body,
                   content, nread, stdout, results, pushVars, clientVars>>

\* removeContainer making no call on the runtime
removeContainerNoCall(id, ok) == calls

\* removeContainer calling ContainerRemove again when it failed
removeContainerRetry(id, ok) ==
    IF ok THEN Append(calls, Call("remove", id, ok, <<>>, 0))
    ELSE calls \o << Call("remove", id, FALSE, <<>>, 0),
                     Call("remove", id, TRUE, <<>>, 0) >>

\* handler.go:246-255: the ContainerRemove result is discarded
removeContainer(id, ok) == Append(calls, Call("remove", id, ok, <<>>, 0))

\* RunDeferred putting a failed ContainerRemove in the returned error
RunDeferredReportsRemove ==
    /\ proc = "up" /\ pc \in {"return", "panic"} /\ deferred # <<>>
    /\ LET d == Head(deferred)
       IN  /\ deferred' = Tail(deferred)
           /\ IF d.f = "Close"
              THEN body' = "closed" /\ calls' = calls /\ err' = err
              ELSE /\ body' = body
                   /\ \E ok \in BOOLEAN :
                         /\ calls' = removeContainer(d.id, ok)
                         /\ err' = IF ok THEN err ELSE "remove"
    /\ UNCHANGED <<setupVars, Config, Metrics, proc, pc, runNo, containerID, content,
                   nread, state, stdout, logged, results, pushVars,
                   clientVars>>

\* the deferred calls run last first, on return and on panic
RunDeferred ==
    /\ proc = "up" /\ pc \in {"return", "panic"} /\ deferred # <<>>
    /\ LET d == Head(deferred)
       IN  /\ deferred' = Tail(deferred)
           /\ IF d.f = "Close"
              THEN body' = "closed" /\ calls' = calls
              ELSE /\ body' = body
                   /\ \E ok \in BOOLEAN : calls' = removeContainer(d.id, ok)
    /\ UNCHANGED <<setupVars, Config, Metrics, proc, pc, runNo, containerID, content,
                   nread, err, state, stdout, logged, results, pushVars,
                   clientVars>>

\* handler.go:216: return (state, stdout, err) to the caller
LaunchReturn ==
    /\ proc = "up" /\ pc = "return" /\ deferred = <<>>
    /\ results' = Append(results, [run |-> runNo, id |-> containerID,
                                   state |-> state, stdout |-> stdout,
                                   err |-> err])
    /\ pc' = "idle"
    /\ containerID' = 0
    /\ body' = "nil" /\ content' = "" /\ nread' = 0
    /\ err' = "nil" /\ state' = 0 /\ stdout' = ""
    /\ UNCHANGED <<setupVars, Config, Metrics, proc, runNo, deferred, calls, logged,
                   pushVars, clientVars>>

\* an unrecovered panic ends the process once the deferred calls have run
LaunchPanic ==
    /\ proc = "up" /\ pc = "panic" /\ deferred = <<>>
    /\ proc' = "panicked"
    /\ pc' = "aborted"
    /\ UNCHANGED <<setupVars, Config, Metrics, runNo, containerID, deferred, body,
                   content, nread, err, state, stdout, calls, logged,
                   results, pushVars, clientVars>>

\* ----------------------------------------------------- PushToPrometheus
Letters == {"h", "g", "r"}
SchemeChars == {"0", "1", "+", "-", "."}

\* net/url getScheme as used by http.NewRequest (handler.go:233,
\* part_000:47): a ":" in first position is "missing protocol scheme"
RECURSIVE getScheme(_, _)
getScheme(rawurl, i) ==
    IF i > Len(rawurl) THEN [scheme |-> <<>>, err |-> FALSE]
    ELSE LET c == rawurl[i]
         IN  IF c \in Letters THEN getScheme(rawurl, i + 1)
             ELSE IF c \in SchemeChars
                  THEN IF i = 1 THEN [scheme |-> <<>>, err |-> FALSE]
                       ELSE getScheme(rawurl, i + 1)
             ELSE IF c = ":"
                  THEN IF i = 1 THEN [scheme |-> <<>>, err |-> TRUE]
                       ELSE [scheme |-> SubSeq(rawurl, 1, i - 1), err |-> FALSE]
             ELSE [scheme |-> <<>>, err |-> FALSE]

\* http.NewRequest: the nil *Request when the URL does not parse
NewRequest(method, url, data) ==
    IF getScheme(url, 1).err THEN NilReq
    ELSE [method |-> method, url |-> url, contentType |-> "", body |-> data]

\* strings.Join
RECURSIVE Join(_, _)
Join(a, sep) ==
    IF Len(a) = 0 THEN ""
    ELSE IF Len(a) = 1 THEN a[1]
    ELSE a[1] \o sep \o Join(Tail(a), sep)

MetricsPath ==
    << "/", "m", "e", "t", "r", "i", "c", "s", "/", "j", "o", "b", "/",
       "c", "o", "n", "p", "l", "i", "c", "i", "t", "y", "/",
       "i", "n", "s", "t", "a", "n", "c", "e", "/" >>

\* handler.go:225
PushURL(cfg, hostname) == cfg.PushgatewayURL \o MetricsPath \o hostname

\* handler.go:226
PushData(metrics) == Join(metrics, "\n") \o "\n"

\* PushNoop with the two conditions joined by "and"
PushNoopBoth(metrics, cfg) == Len(metrics) = 0 /\ cfg.PushgatewayURL = <<>>

\* handler.go:221
PushNoop(metrics, cfg) == Len(metrics) = 0 \/ cfg.PushgatewayURL = <<>>

\* PushToPrometheus emptying c.Metrics once the batch was sent
PushToPrometheusClears ==
    /\ proc = "up" /\ pc = "idle" /\ pushNo < MaxPushes
    /\ pushNo' = pushNo + 1
    /\ IF PushNoop(Metrics, Config)
       THEN /\ pushResults' = Append(pushResults,
                                          [batch |-> Metrics, err |-> "nil"])
            /\ UNCHANGED <<httpCalls, proc>>
       ELSE LET req == NewRequest("PUT", PushURL(Config, Hostname),
                                  PushData(Metrics))
            IN  IF req = NilReq
                THEN /\ proc' = "panicked"
                     /\ UNCHANGED <<httpCalls, pushResults>>
                ELSE /\ httpCalls' = Append(httpCalls,
                            [req EXCEPT !.contentType = "text/plain; version=0.0.4"])
                     /\ \E ok \in BOOLEAN :
                           pushResults' = Append(pushResults,
                               [batch |-> Metrics,
                                err |-> IF ok THEN "nil" ELSE "do"])
                     /\ proc' = proc
    /\ Metrics' = IF httpCalls' # httpCalls THEN <<>> ELSE Metrics
    /\ UNCHANGED <<setupVars, Config, runVars, clientVars>>

\* handler.go:220-244.  req.Header.Set on the nil request (NewRequest
\* failed, its error unchecked) is a nil dereference: the process panics.
PushToPrometheus ==
    /\ proc = "up" /\ pc = "idle" /\ pushNo < MaxPushes
    /\ pushNo' = pushNo + 1
    /\ IF PushNoop(Metrics, Config)
       THEN /\ pushResults' = Append(pushResults,
                                          [batch |-> Metrics, err |-> "nil"])
            /\ UNCHANGED <<httpCalls, proc>>
       ELSE LET req == NewRequest("PUT", PushURL(Config, Hostname),
                                  PushData(Metrics))
            IN  IF req = NilReq
                THEN /\ proc' = "panicked"
                     /\ UNCHANGED <<httpCalls, pushResults>>
                ELSE /\ httpCalls' = Append(httpCalls,
                            [req EXCEPT !.contentType = "text/plain; version=0.0.4"])
                     /\ \E ok \in BOOLEAN :
                           pushResults' = Append(pushResults,
                               [batch |-> Metrics,
                                err |-> IF ok THEN "nil" ELSE "do"])
                     /\ proc' = proc
    /\ UNCHANGED <<setupVars, Config, Metrics, runVars, clientVars>>

\* the caller of LaunchDuplicity appends a metric line to c.Metrics
AppendMetric ==
    /\ proc = "up" /\ pc = "idle" /\ Len(Metrics) < MaxMetrics
    /\ \E line \in MetricLines : Metrics' = Append(Metrics, line)
    /\ UNCHANGED <<setupVars, Config, proc, runVars, pushVars, clientVars>>

\* ------------------------------------------------- client (part_000)
S(v) == [k |-> "str", v |-> v]
P(v) == [k |-> "punct", v |-> v]
NumTok == [k |-> "num", v |-> "1"]
NullTok == [k |-> "null", v |-> "null"]
BadTok == [k |-> "bad", v |-> "x"]

\* response bodies, as JSON lexemes
BodyPong == << P("{"), S("type"), P(":"), S("pong"), P("}") >>
BodyWrong == << P("{"), S("type"), P(":"), S("wrong"), P("}") >>
BodyPongExtra == << P("{"), S("extra"), P(":"), S("x"), P(","),
                    S("type"), P(":"), S("pong"), P("}") >>
BodyOtherKey == << P("{"), S("extra"), P(":"), S("pong"), P("}") >>
BodyEmptyObj == << P("{"), P("}") >>
BodyNull == << NullTok >>
BodyNullType == << P("{"), S("type"), P(":"), NullTok, P("}") >>
BodyNumType == << P("{"), S("type"), P(":"), NumTok, P("}") >>
BodyArray == << P("["), P("]") >>
BodyGarbage == << BadTok >>
BodyTruncated == << P("{"), S("type"), P(":"), S("pong") >>
BodyEmpty == << >>
Bodies == { BodyPong, BodyWrong, BodyPongExtra, BodyOtherKey, BodyEmptyObj,
            BodyNull, BodyNullType, BodyNumType, BodyArray, BodyGarbage,
            BodyTruncated, BodyEmpty }
Statuses == {200, 404}
StatusText(n) == IF n = 200 THEN "200" ELSE "404"
RemoteAddrs == { <<"h", ":", "/", "/", "r">>, <<":", "/", "/", "r">> }
PSKs == {"s1", "s2"}
PingPath == <<"/", "p", "i", "n", "g">>
VolumesPath == <<"/", "v", "o", "l", "u", "m", "e", "s">>
BodyVols2 == << P("["), P("{"), S("name"), P(":"), S("vol1"), P("}"), P(","),
                P("{"), S("name"), P(":"), S("vol2"), P("}"), P("]") >>
BodyVolsTruncated == << P("["), P("{"), S("name"), P(":"), S("vol1"), P("}") >>
VolBodies == { BodyVols2, BodyVolsTruncated, BodyArray, BodyNull, BodyPong,
               BodyGarbage, BodyEmpty }

\* the bytes of a lexeme and of a body (string(body), part_000:74)
Raw(tok) == IF tok.k = "str" THEN "\"" \o tok.v \o "\"" ELSE tok.v
RawText(b) == [i \in 1..Len(b) |-> Raw(b[i])]

EmptyMap == [key \in {} |-> ""]
MapPut(m, key, val) ==
    [x \in DOMAIN m \cup {key} |-> IF x = key THEN val ELSE m[x]]
\* m[key] of a Go map: the zero value when the key is absent
MapGet(m, key) == IF key \in DOMAIN m THEN m[key] ELSE ""

\* json.Unmarshal of the members of an object into map[string]string,
\* from lexeme i: a string or null value is stored, any other value is an
\* error; the object must end the body
RECURSIVE Members(_, _, _)
Members(b, i, m) ==
    IF i + 3 > Len(b) THEN [ok |-> FALSE, m |-> m]
    ELSE IF b[i].k # "str" \/ b[i + 1] # P(":") THEN [ok |-> FALSE, m |-> m]
    ELSE IF b[i + 2].k \notin {"str", "null"} THEN [ok |-> FALSE, m |-> m]
    ELSE LET m2 == MapPut(m, b[i].v,
                          IF b[i + 2].k = "str" THEN b[i + 2].v ELSE "")
         IN  IF b[i + 3] = P("}")
             THEN [ok |-> (i + 3 = Len(b)), m |-> m2]
             ELSE IF b[i + 3] = P(",") THEN Members(b, i + 4, m2)
             ELSE [ok |-> FALSE, m |-> m2]

\* json.Unmarshal(body, &data) with data a *map[string]string (part_000:69)
UnmarshalMap(b) ==
    IF b = << NullTok >> THEN [ok |-> TRUE, m |-> EmptyMap]
    ELSE IF Len(b) < 2 \/ b[1] # P("{") THEN [ok |-> FALSE, m |-> EmptyMap]
    ELSE IF b[2] = P("}") THEN [ok |-> (Len(b) = 2), m |-> EmptyMap]
    ELSE Members(b, 2, EmptyMap)

\* a volume.Volume decoded from the members of a JSON object
Volume(m) == [name |-> MapGet(m, "name")]

\* the members of one array element, from lexeme i (after its "{"): the
\* decoded members and the index after the closing "}"
RECURSIVE VolMembers(_, _, _)
VolMembers(b, i, m) ==
    IF i + 3 > Len(b) THEN [ok |-> FALSE, m |-> m, next |-> i]
    ELSE IF b[i].k # "str" \/ b[i + 1] # P(":") \/ b[i + 2].k \notin {"str", "null"}
    THEN [ok |-> FALSE, m |-> m, next |-> i]
    ELSE LET m2 == MapPut(m, b[i].v,
                          IF b[i + 2].k = "str" THEN b[i + 2].v ELSE "")
         IN  IF b[i + 3] = P("}") THEN [ok |-> TRUE, m |-> m2, next |-> i + 4]
             ELSE IF b[i + 3] = P(",") THEN VolMembers(b, i + 4, m2)
             ELSE [ok |-> FALSE, m |-> m2, next |-> i]

\* the elements of a JSON array of objects, from lexeme i
RECURSIVE VolElements(_, _, _)
VolElements(b, i, acc) ==
    IF i > Len(b) \/ b[i] # P("{") THEN [ok |-> FALSE, m |-> << >>]
    ELSE LET o == VolMembers(b, i + 1, EmptyMap)
         IN  IF ~o.ok \/ o.next > Len(b) THEN [ok |-> FALSE, m |-> << >>]
             ELSE IF b[o.next] = P("]")
             THEN IF o.next = Len(b)
                  THEN [ok |-> TRUE, m |-> Append(acc, Volume(o.m))]
                  ELSE [ok |-> FALSE, m |-> << >>]
             ELSE IF b[o.next] = P(",")
             THEN VolElements(b, o.next + 1, Append(acc, Volume(o.m)))
             ELSE [ok |-> FALSE, m |-> << >>]

\* json.Unmarshal(body, &data) with data a *[]volume.Volume (part_000:37,69)
UnmarshalVolumes(b) ==
    IF b = << NullTok >> THEN [ok |-> TRUE, m |-> << >>]
    ELSE IF Len(b) < 2 \/ b[1] # P("[") THEN [ok |-> FALSE, m |-> << >>]
    ELSE IF b[2] = P("]") THEN [ok |-> (Len(b) = 2), m |-> << >>]
    ELSE VolElements(b, 2, << >>)

\* json.Unmarshal into the shape the caller passed as data
Unmarshal(shape, b) ==
    IF shape = "map" THEN UnmarshalMap(b) ELSE UnmarshalVolumes(b)

\* fmt %v of a map[string]string: map[k:v k:v], keys in sorted order
KeyOrder == << "extra", "type" >>
RECURSIVE FormatEntries(_, _, _)
FormatEntries(m, i, first) ==
    IF i > Len(KeyOrder) THEN << >>
    ELSE IF KeyOrder[i] \notin DOMAIN m THEN FormatEntries(m, i + 1, first)
    ELSE (IF first THEN << >> ELSE << " " >>)
         \o << KeyOrder[i], ":", m[KeyOrder[i]] >>
         \o FormatEntries(m, i + 1, FALSE)
FormatMap(m) == << "map[" >> \o FormatEntries(m, 1, TRUE) \o << "]" >>

NoError == << >>
NoClient == [remoteAddress |-> << >>, psk |-> "none"]
NoRequest == [method |-> "none", url |-> << >>, authorization |-> ""]

\* AuthHeader leaving the key out
AuthHeaderNoKey(psk) == "Bearer "

\* part_000:53
AuthHeader(psk) == "Bearer " \o psk

\* StatusOK taking every status for a success
StatusOKAny(status) == status \in Statuses

\* part_000:68
StatusOK(status) == status = 200

\* part_000:45-78.  outcome is what the transport does: "sendfail"
\* (client.Do fails), "readfail" (reading the body fails) or "ok".
\* Yields the error, the decoded data and the request handed to client.Do.
newRequest(remoteAddress, psk, shape, method, endpoint, outcome, status, b) ==
    LET url == remoteAddress \o endpoint
        req == [method |-> method, url |-> url,
                authorization |-> AuthHeader(psk)]
    IN  IF getScheme(url, 1).err
        THEN [err |-> << "failed to build request: ", "missing protocol scheme" >>,
              data |-> EmptyMap, req |-> NoRequest]
        ELSE IF outcome = "sendfail"
        THEN [err |-> << "failed to send request: ", "transport" >>,
              data |-> EmptyMap, req |-> req]
        ELSE IF outcome = "readfail"
        THEN [err |-> << "failed to read body: ", "transport" >>,
              data |-> EmptyMap, req |-> req]
        ELSE IF StatusOK(status)
        THEN LET d == Unmarshal(shape, b)
             IN  IF d.ok THEN [err |-> NoError, data |-> d.m, req |-> req]
                 ELSE [err |-> << "failed to unmarshal response from the Bivac instance: ",
                                  "json" >>,
                       data |-> d.m, req |-> req]
        ELSE [err |-> << "received wrong status code from the Bivac instance: [",
                         StatusText(status), "] " >> \o RawText(b),
              data |-> EmptyMap, req |-> req]

\* IsPong accepting any response that has a "type"
IsPongAnyType(pingResponse) == "type" \in DOMAIN pingResponse

\* part_000:29
IsPong(pingResponse) == MapGet(pingResponse, "type") = "pong"

\* part_000:17-34: the error NewClient returns for a newRequest result
NewClientErr(r) ==
    IF r.err # NoError
    THEN << "failed to connect to the remote Bivac instance: " >> \o r.err
    ELSE IF ~IsPong(r.data)
    THEN << "wrong response from the Bivac instance: " >> \o FormatMap(r.data)
    ELSE NoError

\* part_000:17-34
NewClient ==
    /\ pingNo + volNo < MaxPings
    /\ \E remoteAddress \in RemoteAddrs, psk \in PSKs,
          outcome \in {"sendfail", "readfail", "ok"},
          status \in Statuses, b \in Bodies :
         \* inputs that are never looked at are fixed
         /\ getScheme(remoteAddress \o PingPath, 1).err
               => outcome = "ok" /\ psk = "s1"
         /\ (getScheme(remoteAddress \o PingPath, 1).err \/ outcome # "ok")
               => status = 200 /\ b = BodyEmpty
         /\ LET r == newRequest(remoteAddress, psk, "map", "GET", PingPath,
                                outcome, status, b)
            IN  /\ clientReqs' = IF r.req = NoRequest THEN clientReqs
                                 ELSE Append(clientReqs, r.req)
                /\ pingResults' = Append(pingResults,
                        [remoteAddress |-> remoteAddress, outcome |-> outcome,
                         status |-> status, body |-> b,
                         err |-> NewClientErr(r)])
                /\ client' = [remoteAddress |-> remoteAddress, psk |-> psk]
    /\ pingNo' = pingNo + 1
    /\ UNCHANGED <<setupVars, Config, Metrics, proc, runVars, pushVars,
                   volResults, volNo>>

\* part_000:36-43: the error GetVolumes returns for a newRequest result
GetVolumesErr(r) ==
    IF r.err # NoError
    THEN << "failed to connect to the remote Bivac instance: " >> \o r.err
    ELSE NoError

\* part_000:36-43, on the client NewClient returned
GetVolumes ==
    /\ client # NoClient
    /\ pingNo + volNo < MaxPings
    /\ \E outcome \in {"sendfail", "readfail", "ok"},
          status \in Statuses, b \in VolBodies :
         \* inputs that are never looked at are fixed
         /\ (getScheme(client.remoteAddress \o VolumesPath, 1).err
                \/ outcome # "ok")
               => status = 200 /\ b = BodyEmpty
         /\ getScheme(client.remoteAddress \o VolumesPath, 1).err
               => outcome = "ok"
         /\ LET r == newRequest(client.remoteAddress, client.psk, "volumes",
                                "GET", VolumesPath, outcome, status, b)
            IN  /\ clientReqs' = IF r.req = NoRequest THEN clientReqs
                                 ELSE Append(clientReqs, r.req)
                /\ volResults' = Append(volResults,
                        [remoteAddress |-> client.remoteAddress,
                         outcome |-> outcome, status |-> status, body |-> b,
                         volumes |-> r.data, err |-> GetVolumesErr(r)])
    /\ volNo' = volNo + 1
    /\ UNCHANGED <<setupVars, Config, Metrics, proc, runVars, pushVars,
                   pingResults, pingNo, client>>

\* ------------------------------------------------------- specifications
GoodURL == <<"h", ":", "/", "/", "g">>

InitProcess ==
    /\ proc = "up" /\ pc = "idle" /\ runNo = 0 /\ containerID = 0
    /\ deferred = <<>> /\ body = "nil" /\ content = "" /\ nread = 0
    /\ err = "nil" /\ state = 0 /\ stdout = ""
    /\ calls = <<>> /\ logged = <<>> /\ results = <<>>
    /\ httpCalls = <<>> /\ pushResults = <<>> /\ pushNo = 0
    /\ clientReqs = <<>> /\ pingResults = <<>> /\ pingNo = 0
    /\ client = NoClient /\ volResults = <<>> /\ volNo = 0
    /\ imageCalls = <<>> /\ pullResult = "none"
    /\ Metrics = <<>>

\* the backup-run lifecycle: one process making runs one after another
Init ==
    /\ InitProcess
    /\ program = "backup"
    /\ Config \in { cfg \in Configs :
                      /\ cfg.PushgatewayURL = GoodURL
                      /\ cfg.SecretAccessKey = cfg.AccessKeyID
                      /\ \A f \in {"Username", "Password", "AuthURL",
                                   "TenantName", "RegionName"} : cfg[f] = "" }

Next ==
    \/ LaunchCreate
    \/ LaunchStart
    \/ LaunchLogs
    \/ ReadChunk
    \/ ReadEnd
    \/ LaunchInspect
    \/ RunDeferred
    \/ LaunchReturn
    \/ LaunchPanic

Spec == Init /\ [][Next]_vars

\* the environment composer: every configuration, up to container creation
InitEnv ==
    /\ InitProcess
    /\ program = "backup"
    /\ Config \in { cfg \in Configs : cfg.PushgatewayURL = GoodURL }

NextEnv == LaunchCreate

SpecEnv == InitEnv /\ [][NextEnv]_vars

\* the metrics reporter, at the end of a cycle of zero or one runs
NoCredentials(cfg) ==
    \A f \in {"AccessKeyID", "SecretAccessKey", "Username", "Password",
               "AuthURL", "TenantName", "RegionName"} : cfg[f] = ""

InitPush ==
    /\ proc = "up" /\ pc = "idle" /\ containerID = 0
    /\ deferred = <<>> /\ body = "nil" /\ content = "" /\ nread = 0
    /\ err = "nil" /\ state = 0 /\ stdout = ""
    /\ logged = <<>>
    /\ httpCalls = <<>> /\ pushResults = <<>> /\ pushNo = 0
    /\ clientReqs = <<>> /\ pingResults = <<>> /\ pingNo = 0
    /\ client = NoClient /\ volResults = <<>> /\ volNo = 0
    /\ imageCalls = <<>> /\ pullResult = "none"
    /\ program = "report"
    /\ Metrics = <<>>
    /\ Config \in { cfg \in Configs : NoCredentials(cfg) }
    /\ \/ runNo = 0 /\ calls = <<>> /\ results = <<>>
       \/ /\ runNo = 1
          /\ calls = << Call("create", 1, TRUE, Env(Config), 0),
                        Call("start", 1, TRUE, <<>>, 0),
                        Call("logs", 1, TRUE, <<>>, 0),
                        Call("read", 1, TRUE, <<>>, 0),
                        Call("inspect", 1, TRUE, <<>>, 0),
                        Call("remove", 1, TRUE, <<>>, 0) >>
          /\ results = << [run |-> 1, id |-> 1, state |-> 0, stdout |-> "",
                           err |-> "nil"] >>

NextPush ==
    \/ AppendMetric
    \/ PushToPrometheus

SpecPush == InitPush /\ [][NextPush]_vars

\* the remote inventory client
InitClient ==
    /\ InitProcess
    /\ program = "client"
    /\ Config \in { cfg \in Configs :
                      NoCredentials(cfg) /\ cfg.PushgatewayURL = <<>> }

NextClient ==
    \/ NewClient
    \/ GetVolumes

SpecClient == InitClient /\ [][NextClient]_vars

\* image readiness, the last step of Setup, for every configuration
InitSetup ==
    /\ InitProcess
    /\ program = "setup"
    /\ Config \in { cfg \in Configs : cfg.PushgatewayURL = GoodURL }

NextSetup == pullImage

SpecSetup == InitSetup /\ [][NextSetup]_vars

\* every operation: a process is the backup supervisor, the reporter ending
\* a cycle, or a user of the remote inventory client
InitAll ==
    \/ Init
    \/ InitPush
    \/ InitClient

NextAll ==
    \/ program = "backup" /\ Next
    \/ program = "report" /\ NextPush
    \/ program = "client" /\ NextClient

SpecAll == InitAll /\ [][NextAll]_vars

\* ---------------------------------------------------------------- claims
\* the calls made on container id, and whether its invocation has ended
CallsOn(op, id) == { i \in DOMAIN calls : calls[i].op = op /\ calls[i].id = id }
Ended(id) == id # containerID \/ pc \in {"idle", "aborted"}
ResultsOf(id) == { k \in DOMAIN results : results[k].id = id }
RECURSIVE Chunks(_)
Chunks(n) == IF n = 0 THEN "" ELSE "o" \o Chunks(n - 1)

\* C1: once an invocation has ended, every container whose create call
\* succeeded has received exactly one remove call, whichever later step
\* (start, opening the log stream, reading it, inspect) failed.
C1_ExactlyOneRemovePerCreate ==
    \A i \in DOMAIN calls :
        (calls[i].op = "create" /\ calls[i].ok /\ Ended(calls[i].id))
            => Cardinality(CallsOn("remove", calls[i].id)) = 1

\* C2: when create and start succeeded and opening the log stream failed,
\* the ended invocation made an inspect call, returned a result carrying the
\* exit code inspect reported and empty output, and removed the container.
C2_LogOpenFailureStillReturns ==
    \A i \in DOMAIN calls :
        (calls[i].op = "logs" /\ ~calls[i].ok /\ Ended(calls[i].id))
            => /\ CallsOn("inspect", calls[i].id) # {}
               /\ \E k \in ResultsOf(calls[i].id) :
                     /\ results[k].stdout = ""
                     /\ \A j \in CallsOn("inspect", calls[i].id) :
                           calls[j].ok => results[k].state = calls[j].ret
               /\ Cardinality(CallsOn("remove", calls[i].id)) = 1

\* C3: when inspect fails, the ended invocation returned an exit code that
\* is a sentinel outside 0..255.
C3_InspectFailureSentinel ==
    \A i \in DOMAIN calls :
        (calls[i].op = "inspect" /\ ~calls[i].ok /\ Ended(calls[i].id))
            => \E k \in ResultsOf(calls[i].id) :
                  results[k].state \notin 0..255

\* C4: when reading the log stream failed and inspect succeeded, the ended
\* invocation returned the exit code of inspect, the output read so far,
\* and the log-retrieval error as its error value.
C4_ReadFailureSurfaced ==
    \A i, j \in DOMAIN calls :
        (/\ calls[i].op = "read" /\ ~calls[i].ok
         /\ calls[j].op = "inspect" /\ calls[j].ok
         /\ calls[j].id = calls[i].id /\ Ended(calls[i].id))
            => \E k \in ResultsOf(calls[i].id) :
                  /\ results[k].state = calls[j].ret
                  /\ results[k].stdout = Chunks(calls[i].ret)
                  /\ results[k].err = "read"

\* C5: a failed create or start ends the run fatally: the process is over,
\* the run produced no result and made no stream-logs or inspect call; after
\* a failed create no remove call is made, after a failed start the
\* container obtained from create has received its remove call.
C5_ProvisioningFailureFatalAndClean ==
    \A i \in DOMAIN calls :
        (calls[i].op \in {"create", "start"} /\ ~calls[i].ok)
            => /\ proc # "up"
               /\ Len(results) < runNo
               /\ \A j \in DOMAIN calls :
                     j > i => calls[j].op \notin {"logs", "read", "inspect"}
               /\ calls[i].op = "create"
                     => \A j \in DOMAIN calls : j > i => calls[j].op # "remove"
               /\ calls[i].op = "start"
                     => Cardinality(CallsOn("remove", calls[i].id)) = 1

\* a step of PushToPrometheus
PushStep == pushNo' # pushNo
RECURSIVE LinesNL(_)
LinesNL(batch) ==
    IF batch = <<>> THEN "" ELSE Head(batch) \o "\n" \o LinesNL(Tail(batch))

\* C6: a PushToPrometheus call with an empty batch or an empty gateway URL
\* hands no request to the HTTP client and returns a nil error.
C6_NoopPushSendsNothing ==
    [][ (PushStep /\ (Len(Metrics) = 0 \/ Config.PushgatewayURL = <<>>))
            => /\ httpCalls' = httpCalls
               /\ proc' = "up"
               /\ pushResults' = Append(pushResults,
                                        [batch |-> Metrics, err |-> "nil"])
      ]_vars

C6_Witness ==
    /\ Config.PushgatewayURL = <<>>
    /\ httpCalls = <<>>
    /\ Len(pushResults) = 2
    /\ pushResults[1] = [batch |-> <<>>, err |-> "nil"]
    /\ pushResults[2].batch # <<>> /\ pushResults[2].err = "nil"

\* C7: a PushToPrometheus call with a non-empty batch and a non-empty
\* gateway URL hands exactly one request to the HTTP client: PUT to
\* <gatewayURL>/metrics/job/conplicity/instance/<hostname>, Content-Type
\* text/plain; version=0.0.4, body the lines in order each followed by "\n".
C7_PushSendsOnePut ==
    [][ (PushStep /\ Len(Metrics) > 0 /\ Config.PushgatewayURL # <<>>)
            => httpCalls' = Append(httpCalls,
                  [method |-> "PUT",
                   url |-> Config.PushgatewayURL \o MetricsPath \o Hostname,
                   contentType |-> "text/plain; version=0.0.4",
                   body |-> LinesNL(Metrics)])
      ]_vars

\* C8: every PushToPrometheus call returns to its caller (the process
\* neither aborts nor panics), whatever the gateway URL and the transport
\* do, and leaves the results of the earlier runs as they were.
C8_PushNeverFatal ==
    [][ PushStep
            => /\ proc' = "up"
               /\ Len(pushResults') = Len(pushResults) + 1
               /\ results' = results
               /\ calls' = calls
      ]_vars

EnvKeys ==
    << "AWS_ACCESS_KEY_ID", "AWS_SECRET_ACCESS_KEY", "SWIFT_USERNAME",
       "SWIFT_PASSWORD", "SWIFT_AUTHURL", "SWIFT_TENANTNAME",
       "SWIFT_REGIONNAME", "SWIFT_AUTHVERSION" >>
EnvFields ==
    << "AccessKeyID", "SecretAccessKey", "Username", "Password", "AuthURL",
       "TenantName", "RegionName" >>

\* C9: the environment of every create call has exactly 8 entries KEY=value
\* in the fixed key order, each credential's entry carrying its configured
\* value (KEY= when it is unset), and the last is SWIFT_AUTHVERSION=2.
C9_EnvEightEntriesInOrder ==
    \A i \in DOMAIN calls :
        calls[i].op = "create"
            => /\ Len(calls[i].env) = 8
               /\ \A n \in 1..7 :
                     /\ calls[i].env[n] = EnvKeys[n] \o "=" \o Config[EnvFields[n]]
                     /\ Config[EnvFields[n]] = ""
                           => calls[i].env[n] = EnvKeys[n] \o "="
               /\ calls[i].env[8] = EnvKeys[8] \o "=2"

C9_Witness ==
    /\ Config.AccessKeyID = "k" /\ Config.Username = "" /\ Config.RegionName = ""
    /\ \E i \in DOMAIN calls :
          /\ calls[i].op = "create" /\ calls[i].ok
          /\ calls[i].env[3] = "SWIFT_USERNAME="

\* text contains sub as a run of consecutive lexemes
Contains(text, sub) ==
    \E i \in 1..(Len(text) + 1) :
        /\ i + Len(sub) - 1 <= Len(text)
        /\ SubSeq(text, i, i + Len(sub) - 1) = sub

\* a ping whose response was read with status 200
Read200(r) ==
    /\ r.remoteAddress = <<"h", ":", "/", "/", "r">>
    /\ r.outcome = "ok"
    /\ r.status = 200
PongBodies == { BodyPong, BodyPongExtra }
\* the bodies that are a JSON mapping of strings (or null) without type
\* pong, and how Go prints the decoded map
OtherMappings ==
    { BodyWrong, BodyOtherKey, BodyEmptyObj, BodyNull, BodyNullType }
Rendering(b) ==
    IF b = BodyWrong THEN << "map[", "type", ":", "wrong", "]" >>
    ELSE IF b = BodyOtherKey THEN << "map[", "extra", ":", "pong", "]" >>
    ELSE IF b = BodyNullType THEN << "map[", "type", ":", "", "]" >>
    ELSE << "map[", "]" >>

ConnectPrefix == "failed to connect to the remote Bivac instance: "
MismatchPrefix == "wrong response from the Bivac instance: "
ErrorKind(e) ==
    IF e = NoError THEN "none"
    ELSE IF e[1] = ConnectPrefix THEN "connectivity"
    ELSE IF e[1] = MismatchPrefix THEN "mismatch"
    ELSE "other"

\* C11 as stated: for NewClient and for GetVolumes, a response read with
\* status 200 whose body does not decode into the operation's shape gives an
\* error of the protocol-mismatch kind and not of the connectivity kind.
C11_DecodeFailureIsMismatch ==
    /\ \A k \in DOMAIN pingResults :
          LET r == pingResults[k]
          IN  (Read200(r) /\ ~Unmarshal("map", r.body).ok)
                 => /\ ErrorKind(r.err) = "mismatch"
                    /\ ErrorKind(r.err) # "connectivity"
    /\ \A k \in DOMAIN volResults :
          LET r == volResults[k]
          IN  (Read200(r) /\ ~Unmarshal("volumes", r.body).ok)
                 => /\ ErrorKind(r.err) = "mismatch"
                    /\ ErrorKind(r.err) # "connectivity"

\* a request that was built and handed to the transport
Sent(r) == r.remoteAddress = <<"h", ":", "/", "/", "r">>
\* the error of an operation whose response had a status other than 200
WrongStatusErr(r) ==
    << ConnectPrefix,
       "received wrong status code from the Bivac instance: [",
       StatusText(r.status), "] " >> \o RawText(r.body)
NotDecoded(r) ==
    ~Contains(r.err, << "failed to unmarshal response from the Bivac instance: " >>)

\* C12: for NewClient and for GetVolumes, when the send or the read of the
\* response fails, or the status is not 200, the operation returns an error
\* of the connectivity kind and no decoded data; for a status other than 200
\* the error is the status code followed by the raw body, and the body is
\* not decoded.
C12_ConnectivityErrors ==
    /\ \A k \in DOMAIN pingResults :
          LET r == pingResults[k]
          IN  (Sent(r) /\ (r.outcome # "ok" \/ r.status # 200))
                 => /\ ErrorKind(r.err) = "connectivity"
                    /\ NotDecoded(r)
                    /\ r.outcome = "ok" => r.err = WrongStatusErr(r)
    /\ \A k \in DOMAIN volResults :
          LET r == volResults[k]
          IN  (Sent(r) /\ (r.outcome # "ok" \/ r.status # 200))
                 => /\ ErrorKind(r.err) = "connectivity"
                    /\ r.volumes = << >>
                    /\ NotDecoded(r)
                    /\ r.outcome = "ok" => r.err = WrongStatusErr(r)

C12_Witness ==
    /\ \E k \in DOMAIN pingResults :
          /\ Sent(pingResults[k]) /\ pingResults[k].outcome = "ok"
          /\ pingResults[k].status = 404 /\ pingResults[k].body = BodyPong
          /\ pingResults[k].err = WrongStatusErr(pingResults[k])
    /\ \E k \in DOMAIN volResults :
          /\ Sent(volResults[k]) /\ volResults[k].outcome = "ok"
          /\ volResults[k].status = 404 /\ volResults[k].body = BodyVols2
          /\ volResults[k].volumes = << >>
          /\ volResults[k].err = WrongStatusErr(volResults[k])

\* C14: every request the client hands to the transport, for /ping and for
\* /volumes, carries the Authorization header "Bearer " followed by the key
\* the client was constructed with; an operation adds at most that request.
C14_EveryRequestAuthorized ==
    [][clientReqs' # clientReqs
         => /\ Len(clientReqs') = Len(clientReqs) + 1
            /\ SubSeq(clientReqs', 1, Len(clientReqs)) = clientReqs
            /\ LET req == clientReqs'[Len(clientReqs')]
               IN  /\ req.authorization = "Bearer " \o client'.psk
                   /\ client'.psk \in PSKs
                   /\ req.method = "GET"
                   /\ req.url \in { client'.remoteAddress \o PingPath,
                                    client'.remoteAddress \o VolumesPath }
                   /\ volNo' # volNo => client' = client]_vars

C14_Witness ==
    /\ client.psk = "s2"
    /\ \E i, j \in DOMAIN clientReqs :
          /\ clientReqs[i].url = client.remoteAddress \o PingPath
          /\ clientReqs[i].authorization = "Bearer s2"
          /\ clientReqs[j].url = client.remoteAddress \o VolumesPath
          /\ clientReqs[j].authorization = "Bearer s2"

\* the container ids of the invocations made so far
RunIds == 1..runNo
CountOp(op) == Cardinality({ i \in DOMAIN calls : calls[i].op = op })

\* C13: nothing is retried.  A LaunchDuplicity invocation issues one create
\* call and at most one call each of start, logs, inspect and remove on its
\* container, whatever their outcomes; a PushToPrometheus invocation hands
\* at most one request to the HTTP client; a NewClient or GetVolumes
\* invocation hands at most one request to the HTTP client.
C13_NoRetries ==
    /\ [](/\ CountOp("create") = runNo
          /\ \A i \in DOMAIN calls :
                calls[i].op \in {"start", "logs", "inspect", "remove"}
                   => calls[i].id \in RunIds
          /\ \A id \in RunIds :
                \A op \in {"create", "start", "logs", "inspect", "remove"} :
                   Cardinality(CallsOn(op, id)) <= 1)
    /\ [][/\ PushStep => /\ pushNo' = pushNo + 1
                         /\ Len(httpCalls') <= Len(httpCalls) + 1
          /\ clientReqs' # clientReqs
                => /\ pingNo' + volNo' = pingNo + volNo + 1
                   /\ Len(clientReqs') = Len(clientReqs) + 1
          /\ Len(calls') <= Len(calls) + 1]_vars

\* a returned invocation whose remove call failed, after a failed inspect
C13_Witness ==
    \E k \in DOMAIN results :
        /\ \E i \in CallsOn("remove", results[k].id) : ~calls[i].ok
        /\ \E i \in CallsOn("inspect", results[k].id) : ~calls[i].ok
        /\ \E i \in CallsOn("logs", results[k].id) : calls[i].ok

IsPrefix(a, b) == Len(a) <= Len(b) /\ SubSeq(b, 1, Len(a)) = a

\* C15: a PushToPrometheus call, whether it sends nothing, succeeds or
\* fails, leaves c.Metrics as it was, lines and order; so the batch of every
\* earlier call is a prefix of the batch of every later one, and a request
\* that is sent carries every line accumulated so far.
C15_PushKeepsBatch ==
    /\ [][PushStep
            => /\ Metrics' = Metrics
               /\ httpCalls' # httpCalls
                     => httpCalls'[Len(httpCalls')].body = LinesNL(Metrics')
               /\ \A k \in DOMAIN pushResults :
                     IsPrefix(pushResults[k].batch, Metrics')]_vars
    /\ [](\A j, k \in DOMAIN pushResults :
             j <= k => IsPrefix(pushResults[j].batch, pushResults[k].batch))

\* two requests were sent, the second with the line of the first and one more
C15_Witness ==
    /\ Len(httpCalls) = 2 /\ Len(pushResults) = 2
    /\ pushResults[1].batch = << "a 1" >>
    /\ pushResults[1].err = "nil"
    /\ pushResults[2].batch = << "a 1", "b 2" >>
    /\ httpCalls[1].body = "a 1\n"
    /\ httpCalls[2].body = "a 1\nb 2\n"
    /\ Metrics = << "a 1", "b 2" >>

\* the position of a call in an invocation
Rank(op) ==
    CASE op = "create" -> 1 [] op = "start" -> 2 [] op = "logs" -> 3
      [] op = "read" -> 4 [] op = "inspect" -> 5 [] op = "remove" -> 6
\* the calls of one invocation are consecutive and come in the order create,
\* start, logs, read, inspect, remove; start follows a create that returned
\* the container; remove is the last call and precedes the result
CallOrder ==
    /\ \A i \in 1..(Len(calls) - 1) :
          IF calls[i].id = calls[i + 1].id
          THEN Rank(calls[i].op) < Rank(calls[i + 1].op)
          ELSE calls[i + 1].op = "create" /\ calls[i].id < runNo
    /\ \A id \in RunIds : Cardinality(CallsOn("create", id)) <= 1
    /\ \A j \in DOMAIN calls :
          calls[j].op = "start"
             => /\ j > 1
                /\ calls[j - 1].op = "create" /\ calls[j - 1].ok
                /\ calls[j - 1].id = calls[j].id
    /\ \A k \in DOMAIN results : CallsOn("remove", results[k].id) # {}
    /\ \A i \in DOMAIN calls :
          (calls[i].op = "remove" /\ calls[i].id = containerID)
             => pc \in {"return", "panic", "aborted"}

\* C16 as stated: the calls of one invocation occur in the order create,
\* start, logs, read, inspect, remove; start is issued only after create
\* returned a container, inspect only after the log stream was read to its
\* end, and remove after the other calls and before the result is returned.
C16_InspectAfterFullDrain ==
    /\ CallOrder
    /\ \A j \in DOMAIN calls :
          calls[j].op = "inspect"
             => /\ j > 1
                /\ calls[j - 1].op = "read" /\ calls[j - 1].id = calls[j].id
                /\ calls[j - 1].ok

\* C16 as amended: the same order, with inspect issued only after ReadAll
\* returned, either at the end of the stream or with a read error that left
\* the stream partly read.
C16_InspectAfterReadReturned ==
    /\ CallOrder
    /\ \A j \in DOMAIN calls :
          calls[j].op = "inspect"
             => /\ j > 1
                /\ calls[j - 1].op = "read" /\ calls[j - 1].id = calls[j].id

\* a returned invocation whose read failed and whose inspect followed it
C16_Witness ==
    \E k \in DOMAIN results :
    \E i, j, l \in DOMAIN calls :
        /\ i < j /\ j < l
        /\ calls[i].id = results[k].id /\ calls[i].op = "read" /\ ~calls[i].ok
        /\ calls[j].id = results[k].id /\ calls[j].op = "inspect"
        /\ calls[l].id = results[k].id /\ calls[l].op = "remove"

\* the containers that were created and have not received a remove call
Unremoved ==
    { id \in RunIds : /\ \E i \in CallsOn("create", id) : calls[i].ok
                      /\ CallsOn("remove", id) = {} }

\* C17: over the invocations one process makes one after another, at most
\* one created container is without its remove call at any time, and the
\* container of an invocation has received its remove call before the create
\* call of the next invocation is issued.
C17_RemoveBeforeNextCreate ==
    /\ Cardinality(Unremoved) <= 1
    /\ Unremoved \subseteq {containerID}
    /\ \A j \in DOMAIN calls :
          (calls[j].op = "create" /\ j > 1)
             => /\ calls[j - 1].op = "remove"
                /\ \A id \in RunIds :
                      (\E i \in CallsOn("create", id) : i < j /\ calls[i].ok)
                         => \E l \in CallsOn("remove", id) : l < j

\* a second container was created after the first one's remove call
C17_Witness ==
    \E i, l, j \in DOMAIN calls :
        /\ i < l /\ l < j
        /\ calls[i].op = "create" /\ calls[i].ok
        /\ calls[l].op = "remove" /\ calls[l].id = calls[i].id
        /\ calls[j].op = "create" /\ calls[j].ok
        /\ containerID = calls[j].id

\* C18 as stated: while ReadAll is reading the open log stream the
\* invocation has neither returned nor removed its container, and no result
\* is returned for a container whose stream was not read; once the runtime
\* has closed the stream (the read returned without error) the invocation,
\* when it has ended, has returned a result and the container has received
\* its remove call.
C18_ReturnsOnceStreamCloses ==
    /\ pc = "read"
          => /\ body = "open"
             /\ ResultsOf(containerID) = {}
             /\ CallsOn("remove", containerID) = {}
    /\ \A k \in DOMAIN results : CallsOn("read", results[k].id) # {}
    /\ \A i \in DOMAIN calls :
          (calls[i].op = "read" /\ calls[i].ok /\ Ended(calls[i].id))
             => /\ ResultsOf(calls[i].id) # {}
                /\ CallsOn("remove", calls[i].id) # {}

\* C19: pullImage calls ImagePull if and only if its ImageInspectWithRaw
\* call failed; when the inspect succeeds it makes no pull and returns nil,
\* and when the inspect fails it makes one pull and returns that pull's
\* result.
C19_PullIffInspectFailed ==
    /\ pullResult = "none" => imageCalls = << >>
    /\ pullResult # "none"
          => /\ Len(imageCalls) \in {1, 2}
             /\ imageCalls[1].op = "inspect"
             /\ (\E i \in DOMAIN imageCalls : imageCalls[i].op = "pull")
                   <=> imageCalls[1].err # "nil"
             /\ imageCalls[1].err = "nil"
                   => Len(imageCalls) = 1 /\ pullResult = "nil"
             /\ imageCalls[1].err # "nil"
                   => /\ Len(imageCalls) = 2
                      /\ imageCalls[2].op = "pull"
                      /\ pullResult = imageCalls[2].err

\* the image was absent and its pull succeeded
C19_Witness ==
    /\ imageCalls = << [op |-> "inspect", err |-> "notfound"],
                       [op |-> "pull", err |-> "nil"] >>
    /\ pullResult = "nil"

\* the step that makes the ContainerRemove call
RemoveStep ==
    /\ Len(calls') = Len(calls) + 1
    /\ calls'[Len(calls')].op = "remove"

\* C20: what LaunchDuplicity returns does not depend on the outcome of the
\* ContainerRemove call: the remove step leaves the exit code, the output,
\* the error and the log as they were whether it succeeds or fails, each
\* returned result is the code of the inspect call, the output of the read
\* and the error of the inspect call, and a failed remove is not called
\* again.
C20_ResultIgnoresRemove ==
    /\ [][RemoveStep
            => /\ state' = state /\ stdout' = stdout /\ err' = err
               /\ logged' = logged /\ results' = results
               /\ proc' = proc /\ pc' = pc]_vars
    /\ [](\A k \in DOMAIN results :
             /\ Cardinality(CallsOn("remove", results[k].id)) = 1
             /\ \E i \in CallsOn("inspect", results[k].id) :
                \E r \in CallsOn("read", results[k].id) :
                   /\ results[k].state = calls[i].ret
                   /\ results[k].stdout = Chunks(calls[r].ret)
                   /\ results[k].err = IF calls[i].ok THEN "nil" ELSE "inspect")

\* two invocations returned the same code, output and error, the remove of
\* the first having failed and the remove of the second having succeeded
C20_Witness ==
    /\ Len(results) = 2
    /\ results[1].state = results[2].state
    /\ results[1].stdout = results[2].stdout
    /\ results[1].err = results[2].err
    /\ \E i \in CallsOn("remove", results[1].id) : ~calls[i].ok
    /\ \E i \in CallsOn("remove", results[2].id) : calls[i].ok

====
